---- MODULE Spec2Model ----
(***************************************************************************)
(* A model of the Go code indexer of src/main.py: pass one                 *)
(* (collect_definitions), pass two (collect_references), the linker        *)
(* (merge_definitions_references) and the command-line driver that writes  *)
(* the result.                                                             *)
(*                                                                         *)
(* Text is a string, handled character by character, so that slicing,      *)
(* strip, split, replace and the f-string that builds an id are computed   *)
(* the way Python computes them.  A syntax tree is the sequence of its     *)
(* nodes; a node is named by its index and 0 stands for Python's None      *)
(* node.  A text that may be None is << >> (None) or << text >>.           *)
(***************************************************************************)
EXTENDS Naturals, Sequences, FiniteSets, TLC

None == << >>
Some(text) == << text >>

\* ------------------------------------------------------------------------
\* Python string operations used by the program
\* ------------------------------------------------------------------------

\* s[i - 1], a one-character string
Char(s, i) == SubSeq(s, i, i)

\* str.strip() with no argument strips the characters str.isspace() holds
\* for.  These are the ASCII ones: space, \t, \n, \r, \f, the vertical tab
\* U+000B and the separators U+001C to U+001F (in this order below).  The
\* texts of the model are ASCII, so these are all that can occur in them;
\* on other text str.strip() also removes U+0085, U+00A0, U+1680, U+2000 to
\* U+200A, U+2028, U+2029, U+202F, U+205F and U+3000, which a string of a
\* module cannot hold.
Whitespace ==
    {" ", "\t", "\n", "\r", "\f", "", "", "", "", ""}

RECURSIVE LStripChars(_, _)
LStripChars(s, cs) ==
    IF Len(s) > 0 /\ Char(s, 1) \in cs
    THEN LStripChars(SubSeq(s, 2, Len(s)), cs)
    ELSE s

RECURSIVE RStripChars(_, _)
RStripChars(s, cs) ==
    IF Len(s) > 0 /\ Char(s, Len(s)) \in cs
    THEN RStripChars(SubSeq(s, 1, Len(s) - 1), cs)
    ELSE s

\* s.strip()
StrStrip(s) == LStripChars(RStripChars(s, Whitespace), Whitespace)

\* s.startswith(p)
StartsWith(s, p) == Len(p) <= Len(s) /\ SubSeq(s, 1, Len(p)) = p

\* s.endswith(p)
EndsWith(s, p) == Len(p) <= Len(s) /\ SubSeq(s, Len(s) - Len(p) + 1, Len(s)) = p

\* p in s  (p is not empty)
StrContains(s, p) ==
    \E i \in 1..Len(s) : i + Len(p) - 1 <= Len(s) /\ SubSeq(s, i, i + Len(p) - 1) = p

\* s.replace(old, new): left to right, non-overlapping (old is not empty)
RECURSIVE StrReplace(_, _, _)
StrReplace(s, old, new) ==
    IF Len(s) = 0 THEN ""
    ELSE IF StartsWith(s, old)
         THEN new \o StrReplace(SubSeq(s, Len(old) + 1, Len(s)), old, new)
         ELSE Char(s, 1) \o StrReplace(SubSeq(s, 2, Len(s)), old, new)

\* s.split("\n")[0]: the text before the first newline
RECURSIVE FirstLine(_)
FirstLine(s) ==
    IF Len(s) = 0 \/ Char(s, 1) = "\n" THEN ""
    ELSE Char(s, 1) \o FirstLine(SubSeq(s, 2, Len(s)))

\* sep.join(parts), parts a sequence of strings
RECURSIVE StrJoin(_, _)
StrJoin(sep, parts) ==
    IF parts = << >> THEN ""
    ELSE IF Len(parts) = 1 THEN parts[1]
    ELSE parts[1] \o sep \o StrJoin(sep, Tail(parts))

Digits == "0123456789"

\* str(n) of a natural number, as an f-string formats it
RECURSIVE IntToStr(_)
IntToStr(n) ==
    IF n < 10 THEN Char(Digits, n + 1)
    ELSE IntToStr(n \div 10) \o Char(Digits, (n % 10) + 1)

\* os.path.join(root_dir, file) for a root_dir that does not end in "/"
PathJoin(root_dir, file) == root_dir \o "/" \o file

\* ------------------------------------------------------------------------
\* The syntax provider: nodes of a tree-sitter tree
\* ------------------------------------------------------------------------

Node(type, named, field, start_byte, end_byte, start_row, end_row, children) ==
    [type |-> type, named |-> named, field |-> field,
     start_byte |-> start_byte, end_byte |-> end_byte,
     start_row |-> start_row, end_row |-> end_row, children |-> children]

\* HelperDoc: a Go source file and the syntax tree tree-sitter-go builds of it.
\*    1 | package p
\*    2 | // Helper helps.
\*    3 | func Helper() {}
HelperDoc_code ==
    "package p\n// Helper helps.\nfunc Helper() {}\n"
HelperDoc_nodes ==
    << Node("source_file", TRUE, "", 0, 44, 0, 3, << 2, 3, 4, 5, 6 >>),
       Node("package_clause", TRUE, "", 0, 9, 0, 0, << 7, 8 >>),
       Node("\n", FALSE, "", 9, 10, 0, 1, << >>),
       Node("comment", TRUE, "", 10, 26, 1, 1, << >>),
       Node("function_declaration", TRUE, "", 27, 43, 2, 2, << 9, 10, 11, 12 >>),
       Node("\n", FALSE, "", 43, 44, 2, 3, << >>),
       Node("package", FALSE, "", 0, 7, 0, 0, << >>),
       Node("package_identifier", TRUE, "", 8, 9, 0, 0, << >>),
       Node("func", FALSE, "", 27, 31, 2, 2, << >>),
       Node("identifier", TRUE, "name", 32, 38, 2, 2, << >>),
       Node("parameter_list", TRUE, "parameters", 38, 40, 2, 2, << 13, 14 >>),
       Node("block", TRUE, "body", 41, 43, 2, 2, << 15, 16 >>),
       Node("(", FALSE, "", 38, 39, 2, 2, << >>),
       Node(")", FALSE, "", 39, 40, 2, 2, << >>),
       Node("{", FALSE, "", 41, 42, 2, 2, << >>),
       Node("}", FALSE, "", 42, 43, 2, 2, << >>) >>
HelperDoc == [code |-> HelperDoc_code, nodes |-> HelperDoc_nodes]

\* HelperMain: a Go source file and the syntax tree tree-sitter-go builds of it.
\*    1 | package q
\*    2 | 
\*    3 | func Helper() {}
\*    4 | func Main() { Helper(); x.Helper() }
HelperMain_code ==
    "package q\n\nfunc Helper() {}\nfunc Main() { Helper(); x.Helper() }\n"
HelperMain_nodes ==
    << Node("source_file", TRUE, "", 0, 65, 0, 4, << 2, 3, 4, 5, 6, 7 >>),
       Node("package_clause", TRUE, "", 0, 9, 0, 0, << 8, 9 >>),
       Node("\n", FALSE, "", 9, 10, 0, 1, << >>),
       Node("function_declaration", TRUE, "", 11, 27, 2, 2, << 10, 11, 12, 13 >>),
       Node("\n", FALSE, "", 27, 28, 2, 3, << >>),
       Node("function_declaration", TRUE, "", 28, 64, 3, 3, << 14, 15, 16, 17 >>),
       Node("\n", FALSE, "", 64, 65, 3, 4, << >>),
       Node("package", FALSE, "", 0, 7, 0, 0, << >>),
       Node("package_identifier", TRUE, "", 8, 9, 0, 0, << >>),
       Node("func", FALSE, "", 11, 15, 2, 2, << >>),
       Node("identifier", TRUE, "name", 16, 22, 2, 2, << >>),
       Node("parameter_list", TRUE, "parameters", 22, 24, 2, 2, << 18, 19 >>),
       Node("block", TRUE, "body", 25, 27, 2, 2, << 20, 21 >>),
       Node("func", FALSE, "", 28, 32, 3, 3, << >>),
       Node("identifier", TRUE, "name", 33, 37, 3, 3, << >>),
       Node("parameter_list", TRUE, "parameters", 37, 39, 3, 3, << 22, 23 >>),
       Node("block", TRUE, "body", 40, 64, 3, 3, << 24, 25, 26, 27, 28 >>),
       Node("(", FALSE, "", 22, 23, 2, 2, << >>),
       Node(")", FALSE, "", 23, 24, 2, 2, << >>),
       Node("{", FALSE, "", 25, 26, 2, 2, << >>),
       Node("}", FALSE, "", 26, 27, 2, 2, << >>),
       Node("(", FALSE, "", 37, 38, 3, 3, << >>),
       Node(")", FALSE, "", 38, 39, 3, 3, << >>),
       Node("{", FALSE, "", 40, 41, 3, 3, << >>),
       Node("expression_statement", TRUE, "", 42, 50, 3, 3, << 29 >>),
       Node(";", FALSE, "", 50, 51, 3, 3, << >>),
       Node("expression_statement", TRUE, "", 52, 62, 3, 3, << 30 >>),
       Node("}", FALSE, "", 63, 64, 3, 3, << >>),
       Node("call_expression", TRUE, "", 42, 50, 3, 3, << 31, 32 >>),
       Node("call_expression", TRUE, "", 52, 62, 3, 3, << 33, 34 >>),
       Node("identifier", TRUE, "function", 42, 48, 3, 3, << >>),
       Node("argument_list", TRUE, "arguments", 48, 50, 3, 3, << 35, 36 >>),
       Node("selector_expression", TRUE, "function", 52, 60, 3, 3, << 37, 38, 39 >>),
       Node("argument_list", TRUE, "arguments", 60, 62, 3, 3, << 40, 41 >>),
       Node("(", FALSE, "", 48, 49, 3, 3, << >>),
       Node(")", FALSE, "", 49, 50, 3, 3, << >>),
       Node("identifier", TRUE, "operand", 52, 53, 3, 3, << >>),
       Node(".", FALSE, "", 53, 54, 3, 3, << >>),
       Node("field_identifier", TRUE, "field", 54, 60, 3, 3, << >>),
       Node("(", FALSE, "", 60, 61, 3, 3, << >>),
       Node(")", FALSE, "", 61, 62, 3, 3, << >>) >>
HelperMain == [code |-> HelperMain_code, nodes |-> HelperMain_nodes]

\* HelperRun: a Go source file and the syntax tree tree-sitter-go builds of it.
\*    1 | package p
\*    2 | func Helper() {}
\*    3 | func Run() { Helper() }
HelperRun_code ==
    "package p\nfunc Helper() {}\nfunc Run() { Helper() }\n"
HelperRun_nodes ==
    << Node("source_file", TRUE, "", 0, 51, 0, 3, << 2, 3, 4, 5, 6, 7 >>),
       Node("package_clause", TRUE, "", 0, 9, 0, 0, << 8, 9 >>),
       Node("\n", FALSE, "", 9, 10, 0, 1, << >>),
       Node("function_declaration", TRUE, "", 10, 26, 1, 1, << 10, 11, 12, 13 >>),
       Node("\n", FALSE, "", 26, 27, 1, 2, << >>),
       Node("function_declaration", TRUE, "", 27, 50, 2, 2, << 14, 15, 16, 17 >>),
       Node("\n", FALSE, "", 50, 51, 2, 3, << >>),
       Node("package", FALSE, "", 0, 7, 0, 0, << >>),
       Node("package_identifier", TRUE, "", 8, 9, 0, 0, << >>),
       Node("func", FALSE, "", 10, 14, 1, 1, << >>),
       Node("identifier", TRUE, "name", 15, 21, 1, 1, << >>),
       Node("parameter_list", TRUE, "parameters", 21, 23, 1, 1, << 18, 19 >>),
       Node("block", TRUE, "body", 24, 26, 1, 1, << 20, 21 >>),
       Node("func", FALSE, "", 27, 31, 2, 2, << >>),
       Node("identifier", TRUE, "name", 32, 35, 2, 2, << >>),
       Node("parameter_list", TRUE, "parameters", 35, 37, 2, 2, << 22, 23 >>),
       Node("block", TRUE, "body", 38, 50, 2, 2, << 24, 25, 26 >>),
       Node("(", FALSE, "", 21, 22, 1, 1, << >>),
       Node(")", FALSE, "", 22, 23, 1, 1, << >>),
       Node("{", FALSE, "", 24, 25, 1, 1, << >>),
       Node("}", FALSE, "", 25, 26, 1, 1, << >>),
       Node("(", FALSE, "", 35, 36, 2, 2, << >>),
       Node(")", FALSE, "", 36, 37, 2, 2, << >>),
       Node("{", FALSE, "", 38, 39, 2, 2, << >>),
       Node("expression_statement", TRUE, "", 40, 48, 2, 2, << 27 >>),
       Node("}", FALSE, "", 49, 50, 2, 2, << >>),
       Node("call_expression", TRUE, "", 40, 48, 2, 2, << 28, 29 >>),
       Node("identifier", TRUE, "function", 40, 46, 2, 2, << >>),
       Node("argument_list", TRUE, "arguments", 46, 48, 2, 2, << 30, 31 >>),
       Node("(", FALSE, "", 46, 47, 2, 2, << >>),
       Node(")", FALSE, "", 47, 48, 2, 2, << >>) >>
HelperRun == [code |-> HelperRun_code, nodes |-> HelperRun_nodes]

\* DocVarNested: a Go source file and the syntax tree tree-sitter-go builds of it.
\*    1 | package p
\*    2 | // old
\*    3 | var x, y int
\*    4 | // d1
\*    5 | //d2 <VT>
\*    6 | func F() { type T struct{} }
\*    7 | func G() {}
DocVarNested_code ==
    "package p\n// old\nvar x, y int\n// d1\n//d2 \nfunc F() { type T struct{} }\nfunc G() {}\n"
DocVarNested_nodes ==
    << Node("source_file", TRUE, "", 0, 84, 0, 7, << 2, 3, 4, 5, 6, 7, 8, 9, 10, 11, 12 >>),
       Node("package_clause", TRUE, "", 0, 9, 0, 0, << 13, 14 >>),
       Node("\n", FALSE, "", 9, 10, 0, 1, << >>),
       Node("comment", TRUE, "", 10, 16, 1, 1, << >>),
       Node("var_declaration", TRUE, "", 17, 29, 2, 2, << 15, 16 >>),
       Node("\n", FALSE, "", 29, 30, 2, 3, << >>),
       Node("comment", TRUE, "", 30, 35, 3, 3, << >>),
       Node("comment", TRUE, "", 36, 42, 4, 4, << >>),
       Node("function_declaration", TRUE, "", 43, 71, 5, 5, << 17, 18, 19, 20 >>),
       Node("\n", FALSE, "", 71, 72, 5, 6, << >>),
       Node("function_declaration", TRUE, "", 72, 83, 6, 6, << 21, 22, 23, 24 >>),
       Node("\n", FALSE, "", 83, 84, 6, 7, << >>),
       Node("package", FALSE, "", 0, 7, 0, 0, << >>),
       Node("package_identifier", TRUE, "", 8, 9, 0, 0, << >>),
       Node("var", FALSE, "", 17, 20, 2, 2, << >>),
       Node("var_spec", TRUE, "", 21, 29, 2, 2, << 25, 26, 27, 28 >>),
       Node("func", FALSE, "", 43, 47, 5, 5, << >>),
       Node("identifier", TRUE, "name", 48, 49, 5, 5, << >>),
       Node("parameter_list", TRUE, "parameters", 49, 51, 5, 5, << 29, 30 >>),
       Node("block", TRUE, "body", 52, 71, 5, 5, << 31, 32, 33 >>),
       Node("func", FALSE, "", 72, 76, 6, 6, << >>),
       Node("identifier", TRUE, "name", 77, 78, 6, 6, << >>),
       Node("parameter_list", TRUE, "parameters", 78, 80, 6, 6, << 34, 35 >>),
       Node("block", TRUE, "body", 81, 83, 6, 6, << 36, 37 >>),
       Node("identifier", TRUE, "name", 21, 22, 2, 2, << >>),
       Node(",", FALSE, "", 22, 23, 2, 2, << >>),
       Node("identifier", TRUE, "name", 24, 25, 2, 2, << >>),
       Node("type_identifier", TRUE, "type", 26, 29, 2, 2, << >>),
       Node("(", FALSE, "", 49, 50, 5, 5, << >>),
       Node(")", FALSE, "", 50, 51, 5, 5, << >>),
       Node("{", FALSE, "", 52, 53, 5, 5, << >>),
       Node("type_declaration", TRUE, "", 54, 69, 5, 5, << 38, 39 >>),
       Node("}", FALSE, "", 70, 71, 5, 5, << >>),
       Node("(", FALSE, "", 78, 79, 6, 6, << >>),
       Node(")", FALSE, "", 79, 80, 6, 6, << >>),
       Node("{", FALSE, "", 81, 82, 6, 6, << >>),
       Node("}", FALSE, "", 82, 83, 6, 6, << >>),
       Node("type", FALSE, "", 54, 58, 5, 5, << >>),
       Node("type_spec", TRUE, "", 59, 69, 5, 5, << 40, 41 >>),
       Node("type_identifier", TRUE, "name", 59, 60, 5, 5, << >>),
       Node("struct_type", TRUE, "type", 61, 69, 5, 5, << 42, 43 >>),
       Node("struct", FALSE, "", 61, 67, 5, 5, << >>),
       Node("field_declaration_list", TRUE, "", 67, 69, 5, 5, << 44, 45 >>),
       Node("{", FALSE, "", 67, 68, 5, 5, << >>),
       Node("}", FALSE, "", 68, 69, 5, 5, << >>) >>
DocVarNested == [code |-> DocVarNested_code, nodes |-> DocVarNested_nodes]

\* IfaceMethod: a Go source file and the syntax tree tree-sitter-go builds of it.
\*    1 | package r
\*    2 | type I interface{ M() }
\*    3 | const A, B = 1, 2
\*    4 | func (t T) M() { Main() }
IfaceMethod_code ==
    "package r\ntype I interface{ M() }\nconst A, B = 1, 2\nfunc (t T) M() { Main() }\n"
IfaceMethod_nodes ==
    << Node("source_file", TRUE, "", 0, 78, 0, 4, << 2, 3, 4, 5, 6, 7, 8, 9 >>),
       Node("package_clause", TRUE, "", 0, 9, 0, 0, << 10, 11 >>),
       Node("\n", FALSE, "", 9, 10, 0, 1, << >>),
       Node("type_declaration", TRUE, "", 10, 33, 1, 1, << 12, 13 >>),
       Node("\n", FALSE, "", 33, 34, 1, 2, << >>),
       Node("const_declaration", TRUE, "", 34, 51, 2, 2, << 14, 15 >>),
       Node("\n", FALSE, "", 51, 52, 2, 3, << >>),
       Node("method_declaration", TRUE, "", 52, 77, 3, 3, << 16, 17, 18, 19, 20 >>),
       Node("\n", FALSE, "", 77, 78, 3, 4, << >>),
       Node("package", FALSE, "", 0, 7, 0, 0, << >>),
       Node("package_identifier", TRUE, "", 8, 9, 0, 0, << >>),
       Node("type", FALSE, "", 10, 14, 1, 1, << >>),
       Node("type_spec", TRUE, "", 15, 33, 1, 1, << 21, 22 >>),
       Node("const", FALSE, "", 34, 39, 2, 2, << >>),
       Node("const_spec", TRUE, "", 40, 51, 2, 2, << 23, 24, 25, 26, 27 >>),
       Node("func", FALSE, "", 52, 56, 3, 3, << >>),
       Node("parameter_list", TRUE, "receiver", 57, 62, 3, 3, << 28, 29, 30 >>),
       Node("field_identifier", TRUE, "name", 63, 64, 3, 3, << >>),
       Node("parameter_list", TRUE, "parameters", 64, 66, 3, 3, << 31, 32 >>),
       Node("block", TRUE, "body", 67, 77, 3, 3, << 33, 34, 35 >>),
       Node("type_identifier", TRUE, "name", 15, 16, 1, 1, << >>),
       Node("interface_type", TRUE, "type", 17, 33, 1, 1, << 36, 37, 38, 39 >>),
       Node("identifier", TRUE, "name", 40, 41, 2, 2, << >>),
       Node(",", FALSE, "", 41, 42, 2, 2, << >>),
       Node("identifier", TRUE, "name", 43, 44, 2, 2, << >>),
       Node("=", FALSE, "", 45, 46, 2, 2, << >>),
       Node("expression_list", TRUE, "value", 47, 51, 2, 2, << 40, 41, 42 >>),
       Node("(", FALSE, "", 57, 58, 3, 3, << >>),
       Node("parameter_declaration", TRUE, "", 58, 61, 3, 3, << 43, 44 >>),
       Node(")", FALSE, "", 61, 62, 3, 3, << >>),
       Node("(", FALSE, "", 64, 65, 3, 3, << >>),
       Node(")", FALSE, "", 65, 66, 3, 3, << >>),
       Node("{", FALSE, "", 67, 68, 3, 3, << >>),
       Node("expression_statement", TRUE, "", 69, 75, 3, 3, << 45 >>),
       Node("}", FALSE, "", 76, 77, 3, 3, << >>),
       Node("interface", FALSE, "", 17, 26, 1, 1, << >>),
       Node("{", FALSE, "", 26, 27, 1, 1, << >>),
       Node("method_elem", TRUE, "", 28, 31, 1, 1, << 46, 47 >>),
       Node("}", FALSE, "", 32, 33, 1, 1, << >>),
       Node("int_literal", TRUE, "", 47, 48, 2, 2, << >>),
       Node(",", FALSE, "", 48, 49, 2, 2, << >>),
       Node("int_literal", TRUE, "", 50, 51, 2, 2, << >>),
       Node("identifier", TRUE, "name", 58, 59, 3, 3, << >>),
       Node("type_identifier", TRUE, "type", 60, 61, 3, 3, << >>),
       Node("call_expression", TRUE, "", 69, 75, 3, 3, << 48, 49 >>),
       Node("field_identifier", TRUE, "name", 28, 29, 1, 1, << >>),
       Node("parameter_list", TRUE, "parameters", 29, 31, 1, 1, << 50, 51 >>),
       Node("identifier", TRUE, "function", 69, 73, 3, 3, << >>),
       Node("argument_list", TRUE, "arguments", 73, 75, 3, 3, << 52, 53 >>),
       Node("(", FALSE, "", 29, 30, 1, 1, << >>),
       Node(")", FALSE, "", 30, 31, 1, 1, << >>),
       Node("(", FALSE, "", 73, 74, 3, 3, << >>),
       Node(")", FALSE, "", 74, 75, 3, 3, << >>) >>
IfaceMethod == [code |-> IfaceMethod_code, nodes |-> IfaceMethod_nodes]

\* The text of a file that is not Go source; it is never read.
Notes == [code |-> "notes\n", nodes |-> << >>]

\* open(file_path).read() and parser.parse(...) of a file of the project
ReadAndParse(source) ==
    CASE source = "HelperDoc" -> HelperDoc
      [] source = "HelperMain" -> HelperMain
      [] source = "HelperRun" -> HelperRun
      [] source = "DocVarNested" -> DocVarNested
      [] source = "IfaceMethod" -> IfaceMethod
      [] OTHER -> Notes

RootNode == 1

\* get_text(code, node)
get_text(code, node) == SubSeq(code, node.start_byte + 1, node.end_byte)

NodeText(tree, n) == get_text(tree.code, tree.nodes[n])

\* node.children
Children(tree, n) == tree.nodes[n].children

\* node.parent (0 for the root)
ParentOf(tree, n) ==
    IF \E p \in 1..Len(tree.nodes) : \E k \in 1..Len(Children(tree, p)) : Children(tree, p)[k] = n
    THEN CHOOSE p \in 1..Len(tree.nodes) :
             \E k \in 1..Len(Children(tree, p)) : Children(tree, p)[k] = n
    ELSE 0

\* node.prev_named_sibling (0 when there is none)
prev_named_sibling(tree, n) ==
    LET p == ParentOf(tree, n) IN
    IF p = 0 THEN 0
    ELSE LET sibs == Children(tree, p)
             k == CHOOSE i \in 1..Len(sibs) : sibs[i] = n
             before == {i \in 1..(k - 1) : tree.nodes[sibs[i]].named}
         IN IF before = {} THEN 0
            ELSE sibs[CHOOSE i \in before : \A j \in before : j <= i]

\* node.child_by_field_name(field) (0 when there is none)
child_by_field_name(tree, n, field) ==
    LET kids == Children(tree, n)
        hits == {i \in 1..Len(kids) : tree.nodes[kids[i]].field = field}
    IN IF hits = {} THEN 0
       ELSE kids[CHOOSE i \in hits : \A j \in hits : i <= j]

\* ------------------------------------------------------------------------
\* Bounds and the projects the indexer is run on
\* ------------------------------------------------------------------------

\* The most files a project holds.
MaxFiles == 2

\* The most Definitions and References handed to the linker on its own.
MaxMergeDefs == 2
MaxMergeRefs == 3

GoSources == {"HelperDoc", "HelperMain", "HelperRun", "DocVarNested", "IfaceMethod"}

FileA == "a.go"
FileB == "b.go"
FileN == "n.md"

\* args.path and its one sub-directory
RootDir == "p"
SubDir == "p/s"

RootEntries ==
    {[file |-> f, source |-> s] : f \in {FileA, FileB}, s \in GoSources}
        \cup {[file |-> FileN, source |-> "Notes"]}

SubEntries == {[file |-> FileA, source |-> s] : s \in GoSources}

\* The listings of a directory: its files, each name once, in any order.
Listings(entries, max) ==
    {l \in UNION {[1..k -> entries] : k \in 0..max} :
        \A i, j \in 1..Len(l) : i # j => l[i].file # l[j].file}

Projects ==
    {p \in [root : Listings(RootEntries, MaxFiles), sub : Listings(SubEntries, 1)] :
        Len(p.root) + Len(p.sub) <= MaxFiles}

\* os.walk(path): the root directory first, then its sub-directory
os_walk(p) ==
    << [root_dir |-> RootDir, files |-> p.root],
       [root_dir |-> SubDir, files |-> p.sub] >>

\* The (root_dir, file) pairs in the order the two nested for loops meet them.
RECURSIVE WalkFiles(_)
WalkFiles(walk) ==
    IF walk = << >> THEN << >>
    ELSE [i \in 1..Len(walk[1].files) |->
             [root_dir |-> walk[1].root_dir,
              file |-> walk[1].files[i].file,
              source |-> walk[1].files[i].source]]
         \o WalkFiles(Tail(walk))

VARIABLES
    project,        \* the directory tree under args.path
    pc,             \* where the run is
    fi,             \* how many files the current pass has met
    stack,          \* the nodes the recursive walk has still to visit
    package_name,   \* collect_definitions: the current file's package
    definitions,    \* collect_definitions: definitions; main: merged
    symbol_table,   \* collect_definitions: symbol_table
    references,     \* collect_references: references
    def_trace,      \* history: for each Definition, the node it was made from
    pending,        \* traverse: what the node being visited has yet to record
    out_file,       \* the file at args.output
    stdout          \* what was printed

vars == << project, pc, fi, stack, package_name, definitions, symbol_table,
           references, def_trace, pending, out_file, stdout >>

Files == WalkFiles(os_walk(project))

\* file.endswith(".go")
IsGoFile(file) == EndsWith(file, ".go")

\* ------------------------------------------------------------------------
\* get_doc_comment
\* ------------------------------------------------------------------------

\* A slip: comments.append(x), which leaves the block in reverse order.
ListInsertBack(list, x) == list \o << x >>

\* comments.insert(0, x)
ListInsertFront(list, x) == << x >> \o list

\* get_text(code, prev_sibling).lstrip("//").strip()
CommentText(tree, n) == StrStrip(LStripChars(NodeText(tree, n), {"/"}))

\* The while loop of get_doc_comment.
RECURSIVE doc_comment_loop(_, _, _)
doc_comment_loop(tree, prev_sibling, comments) ==
    IF prev_sibling # 0 /\ tree.nodes[prev_sibling].type = "comment"
    THEN doc_comment_loop(tree, prev_named_sibling(tree, prev_sibling),
                          ListInsertFront(comments, CommentText(tree, prev_sibling)))
    ELSE comments

get_doc_comment(tree, n) ==
    LET comments == doc_comment_loop(tree, prev_named_sibling(tree, n), << >>)
    IN IF comments # << >> THEN Some(StrJoin("\n", comments)) ELSE None

\* ------------------------------------------------------------------------
\* collect_definitions
\* ------------------------------------------------------------------------

\* The package name of a file: the last package_clause among the root's
\* children, the keyword removed and the rest stripped; None without one.
PackageNameOf(tree) ==
    LET kids == Children(tree, RootNode)
        hits == {i \in 1..Len(kids) : tree.nodes[kids[i]].type = "package_clause"}
    IN IF hits = {} THEN None
       ELSE LET last == CHOOSE i \in hits : \A j \in hits : j <= i
            IN Some(StrStrip(StrReplace(NodeText(tree, kids[last]), "package", "")))

\* f"{element_type}_{name}_{file}_{start_line}"
FormatId(element_type, name, file, start_line) ==
    element_type \o "_" \o name \o "_" \o file \o "_" \o IntToStr(start_line)

\* The dictionary appended to definitions.
MakeDefinition(unique_id, element_type, doc, snippet, pkg, file_path, from, to) ==
    [id |-> unique_id,
     type |-> element_type,
     doc_string |-> doc,
     signature |-> FirstLine(snippet),
     snippet |-> snippet,
     package_name |-> pkg,
     file_name |-> file_path,
     language |-> "Go",
     line_from |-> from,
     line_to |-> to,
     references |-> << >>]

\* What a declaration named `name` at node n records: its name and Definition.
Recorded(tree, n, name, element_type, file, file_path, pkg) ==
    LET node == tree.nodes[n]
        start_line == node.start_row + 1
        end_line == node.end_row + 1
    IN [name |-> name,
        def |-> MakeDefinition(FormatId(element_type, name, file, start_line),
                               element_type, get_doc_comment(tree, n),
                               get_text(tree.code, node), pkg, file_path,
                               start_line, end_line)]

\* function_declaration, method_declaration
FunctionDefs(tree, n, file, file_path, pkg) ==
    LET name_node == child_by_field_name(tree, n, "name")
    IN IF name_node # 0
       THEN << Recorded(tree, n, NodeText(tree, name_node), "function",
                        file, file_path, pkg) >>
       ELSE << >>

\* names = [get_text(code, c) for c in node.children if c.type == "identifier"]
IdentifierChildren(tree, n) ==
    SelectSeq(Children(tree, n), LAMBDA c : tree.nodes[c].type = "identifier")

\* const_declaration, var_declaration
ConstVarDefs(tree, n, file, file_path, pkg) ==
    LET names == IdentifierChildren(tree, n)
        element_type == IF tree.nodes[n].type = "const_declaration"
                        THEN "constant" ELSE "variable"
    IN [i \in 1..Len(names) |->
           Recorded(tree, n, NodeText(tree, names[i]), element_type,
                    file, file_path, pkg)]

\* type_declaration
TypeDefs(tree, n, file, file_path, pkg) ==
    LET specs == SelectSeq(Children(tree, n), LAMBDA c : tree.nodes[c].type = "type_spec")
        name_node == IF specs = << >> THEN 0
                     ELSE child_by_field_name(tree, specs[Len(specs)], "name")
        element_type == IF StrContains(NodeText(tree, n), "struct")
                        THEN "struct" ELSE "interface"
    IN IF name_node # 0
       THEN << Recorded(tree, n, NodeText(tree, name_node), element_type,
                        file, file_path, pkg) >>
       ELSE << >>

\* The if/elif chain of traverse: what visiting node n records, in order
\* (the name and Definition of each symbol_table write and append).
DefsOfNode(tree, n, file, file_path, pkg) ==
    LET type == tree.nodes[n].type IN
    IF type \in {"function_declaration", "method_declaration"}
    THEN FunctionDefs(tree, n, file, file_path, pkg)
    ELSE IF type \in {"const_declaration", "var_declaration"}
    THEN ConstVarDefs(tree, n, file, file_path, pkg)
    ELSE IF type = "type_declaration"
    THEN TypeDefs(tree, n, file, file_path, pkg)
    ELSE << >>

\* A slip: the table is given an id built apart from the Definition's, from
\* the name alone.
RegisterByName(table, name, unique_id) ==
    [x \in DOMAIN table \cup {name} |->
        IF x = name THEN "function_" \o name ELSE table[x]]

\* A slip: the first definition of a name keeps its entry
\* (symbol_table.setdefault(name, unique_id)).
RegisterKeepFirst(table, name, unique_id) ==
    IF name \in DOMAIN table THEN table
    ELSE [x \in DOMAIN table \cup {name} |-> IF x = name THEN unique_id ELSE table[x]]

\* symbol_table[name] = unique_id
Register(table, name, unique_id) ==
    [x \in DOMAIN table \cup {name} |-> IF x = name THEN unique_id ELSE table[x]]

\* A slip: the children are queued behind the nodes already waiting
\* (a breadth-first walk).
PushChildrenBehind(rest, children) == rest \o children

\* for child in node.children: traverse(child), before the rest of the walk
PushChildren(rest, children) == children \o rest

\* A slip: the return statement indented into the loop, so that
\* collect_definitions returns after the first file it meets.
DefinitionsFilesLeftFirstOnly(met, total) == met < total /\ met < 1

\* collect_definitions returns once its for loops have met every file.
DefinitionsFilesLeft(met, total) == met < total

\* ------------------------------------------------------------------------
\* collect_references and merge_definitions_references
\* ------------------------------------------------------------------------

\* collect_references returns once its for loops have met every file.
ReferencesFilesLeft(met, total) == met < total

\* The dictionary appended to references.
MakeReference(func_name, definition_id, file_path, line, context) ==
    [type |-> "function_call",
     name |-> func_name,
     definition_id |-> definition_id,
     file_name |-> file_path,
     language |-> "Go",
     line |-> line,
     context |-> context]

\* A slip: the Reference is bound to the callee's name instead of the id.
LookupName(table, func_name) == func_name

\* symbol_table[func_name], read in pass two
Lookup(table, func_name) == table[func_name]

\* What visiting node n appends to references.
RefsOfNode(tree, n, file_path, table) ==
    IF tree.nodes[n].type # "call_expression" THEN << >>
    ELSE LET func_node == child_by_field_name(tree, n, "function")
         IN IF func_node = 0 THEN << >>
            ELSE LET func_name == NodeText(tree, func_node)
                 IN IF func_name \in DOMAIN table
                    THEN << MakeReference(func_name, Lookup(table, func_name), file_path,
                                          tree.nodes[n].start_row + 1, NodeText(tree, n)) >>
                    ELSE << >>

\* A slip: ref_map[def_id].insert(0, ref), which reverses each group.
RefMapAddFront(ref_map, ref) ==
    LET def_id == ref.definition_id
        with == IF def_id \notin DOMAIN ref_map
                THEN [x \in DOMAIN ref_map \cup {def_id} |->
                         IF x = def_id THEN << >> ELSE ref_map[x]]
                ELSE ref_map
    IN [with EXCEPT ![def_id] = << ref >> \o @]

\* ref_map[def_id].append(ref), the list made on first use
RefMapAdd(ref_map, ref) ==
    LET def_id == ref.definition_id
        with == IF def_id \notin DOMAIN ref_map
                THEN [x \in DOMAIN ref_map \cup {def_id} |->
                         IF x = def_id THEN << >> ELSE ref_map[x]]
                ELSE ref_map
    IN [with EXCEPT ![def_id] = Append(@, ref)]

\* The first loop of merge_definitions_references.
RECURSIVE BuildRefMap(_, _)
BuildRefMap(refs, ref_map) ==
    IF refs = << >> THEN ref_map
    ELSE BuildRefMap(Tail(refs), RefMapAdd(ref_map, Head(refs)))

\* The second loop: d["references"] = ref_map[d["id"]] for the ids in ref_map.
Attach(d, ref_map) ==
    IF d.id \in DOMAIN ref_map THEN [d EXCEPT !.references = ref_map[d.id]] ELSE d

merge_definitions_references(defs, refs) ==
    LET ref_map == BuildRefMap(refs, << >>)
    IN [i \in 1..Len(defs) |-> Attach(defs[i], ref_map)]

\* ------------------------------------------------------------------------
\* The run: __main__
\* ------------------------------------------------------------------------

Untouched == [opened |-> FALSE, items |-> << >>, complete |-> FALSE]

CurrentFile == Files[fi]
CurrentTree == ReadAndParse(CurrentFile.source)
CurrentPath == PathJoin(CurrentFile.root_dir, CurrentFile.file)

Init ==
    /\ project \in Projects
    /\ pc = "collect_definitions"
    /\ fi = 0
    /\ stack = << >>
    /\ package_name = None
    /\ definitions = << >>
    /\ symbol_table = << >>
    /\ references = << >>
    /\ def_trace = << >>
    /\ pending = << >>
    /\ out_file = Untouched
    /\ stdout = << >>

\* Pass one meets a file that is not Go source.
SkipFile1 ==
    /\ pc = "collect_definitions"
    /\ DefinitionsFilesLeft(fi, Len(Files))
    /\ ~IsGoFile(Files[fi + 1].file)
    /\ fi' = fi + 1
    /\ UNCHANGED << project, pc, stack, package_name, definitions, symbol_table,
                    references, def_trace, pending, out_file, stdout >>

\* Pass one reads and parses a Go file and finds its package name.
OpenFile1 ==
    /\ pc = "collect_definitions"
    /\ DefinitionsFilesLeft(fi, Len(Files))
    /\ IsGoFile(Files[fi + 1].file)
    /\ fi' = fi + 1
    /\ package_name' = PackageNameOf(ReadAndParse(Files[fi + 1].source))
    /\ stack' = << RootNode >>
    /\ pc' = "traverse"
    /\ UNCHANGED << project, definitions, symbol_table, references, def_trace, pending,
                    out_file, stdout >>

\* open(), read() or parse() raises in pass one: nothing catches it.
ReadFail1 ==
    /\ pc = "collect_definitions"
    /\ DefinitionsFilesLeft(fi, Len(Files))
    /\ IsGoFile(Files[fi + 1].file)
    /\ pc' = "aborted"
    /\ UNCHANGED << project, fi, stack, package_name, definitions, symbol_table,
                    references, def_trace, pending, out_file, stdout >>

\* traverse(node) is entered: the if/elif chain finds what the node declares.
\* A node that declares nothing goes straight to the walk of its children.
Traverse ==
    /\ pc = "traverse"
    /\ stack # << >>
    /\ LET n == Head(stack)
           recorded == DefsOfNode(CurrentTree, n, CurrentFile.file, CurrentPath,
                                  package_name)
           rest == PushChildren(Tail(stack), Children(CurrentTree, n))
       IN IF recorded = << >>
          THEN /\ stack' = rest
               /\ pc' = IF rest = << >> THEN "collect_definitions" ELSE "traverse"
               /\ UNCHANGED pending
          ELSE /\ pending' = recorded
               /\ pc' = "register"
               /\ UNCHANGED stack
    /\ UNCHANGED << project, fi, package_name, definitions, symbol_table, references,
                    def_trace, out_file, stdout >>

\* symbol_table[name] = unique_id, the statement before the append.
WriteSymbolTable ==
    /\ pc = "register"
    /\ symbol_table' = Register(symbol_table, pending[1].name, pending[1].def.id)
    /\ pc' = "append"
    /\ UNCHANGED << project, fi, stack, package_name, definitions, references,
                    def_trace, pending, out_file, stdout >>

\* definitions.append({...}); after the node's last append, the walk of its
\* children.
AppendDefinition ==
    /\ pc = "append"
    /\ definitions' = Append(definitions, pending[1].def)
    /\ def_trace' = Append(def_trace, [file |-> fi, node |-> Head(stack),
                                       name |-> pending[1].name])
    /\ pending' = Tail(pending)
    /\ LET rest == PushChildren(Tail(stack), Children(CurrentTree, Head(stack)))
       IN IF Tail(pending) # << >>
          THEN /\ pc' = "register"
               /\ UNCHANGED stack
          ELSE /\ stack' = rest
               /\ pc' = IF rest = << >> THEN "collect_definitions" ELSE "traverse"
    /\ UNCHANGED << project, fi, package_name, symbol_table, references, out_file,
                    stdout >>

\* collect_definitions returns; collect_references starts.
EndPass1 ==
    /\ pc = "collect_definitions"
    /\ ~DefinitionsFilesLeft(fi, Len(Files))
    /\ pc' = "collect_references"
    /\ fi' = 0
    /\ UNCHANGED << project, stack, package_name, definitions, symbol_table,
                    references, def_trace, pending, out_file, stdout >>

SkipFile2 ==
    /\ pc = "collect_references"
    /\ ReferencesFilesLeft(fi, Len(Files))
    /\ ~IsGoFile(Files[fi + 1].file)
    /\ fi' = fi + 1
    /\ UNCHANGED << project, pc, stack, package_name, definitions, symbol_table,
                    references, def_trace, pending, out_file, stdout >>

OpenFile2 ==
    /\ pc = "collect_references"
    /\ ReferencesFilesLeft(fi, Len(Files))
    /\ IsGoFile(Files[fi + 1].file)
    /\ fi' = fi + 1
    /\ stack' = << RootNode >>
    /\ pc' = "find_calls"
    /\ UNCHANGED << project, package_name, definitions, symbol_table, references,
                    def_trace, pending, out_file, stdout >>

\* open(), read() or parse() raises in pass two.
ReadFail2 ==
    /\ pc = "collect_references"
    /\ ReferencesFilesLeft(fi, Len(Files))
    /\ IsGoFile(Files[fi + 1].file)
    /\ pc' = "aborted"
    /\ UNCHANGED << project, fi, stack, package_name, definitions, symbol_table,
                    references, def_trace, pending, out_file, stdout >>

\* find_calls(node): record the call the node is, then walk its children.
FindCalls ==
    /\ pc = "find_calls"
    /\ stack # << >>
    /\ LET n == Head(stack)
           rest == PushChildren(Tail(stack), Children(CurrentTree, n))
       IN /\ references' = references \o RefsOfNode(CurrentTree, n, CurrentPath,
                                                    symbol_table)
          /\ stack' = rest
          /\ pc' = IF rest = << >> THEN "collect_references" ELSE "find_calls"
    /\ UNCHANGED << project, fi, package_name, definitions, symbol_table, def_trace, pending,
                    out_file, stdout >>

\* collect_references returns.
EndPass2 ==
    /\ pc = "collect_references"
    /\ ~ReferencesFilesLeft(fi, Len(Files))
    /\ pc' = "merge"
    /\ UNCHANGED << project, fi, stack, package_name, definitions, symbol_table,
                    references, def_trace, pending, out_file, stdout >>

\* merged = merge_definitions_references(definitions, references)
Merge ==
    /\ pc = "merge"
    /\ definitions' = merge_definitions_references(definitions, references)
    /\ pc' = "output"
    /\ UNCHANGED << project, fi, stack, package_name, symbol_table, references,
                    def_trace, pending, out_file, stdout >>

\* No --output: print(json.dumps(merged, indent=2))
PrintResult ==
    /\ pc = "output"
    /\ stdout' = Append(stdout, definitions)
    /\ pc' = "done"
    /\ UNCHANGED << project, fi, stack, package_name, definitions, symbol_table,
                    references, def_trace, pending, out_file >>

\* No --output, and the program was started with standard output closed:
\* sys.stdout is None and print returns without writing and without raising.
PrintNowhere ==
    /\ pc = "output"
    /\ pc' = "done"
    /\ UNCHANGED << project, fi, stack, package_name, definitions, symbol_table,
                    references, def_trace, pending, out_file, stdout >>

\* No --output: print raises (the device of standard output is full, the pipe
\* is broken).  Nothing, or the part of the document already flushed, has
\* reached standard output.
PrintFail ==
    /\ pc = "output"
    /\ \E k \in 0..Len(definitions) :
          stdout' = IF k = 0 THEN stdout ELSE Append(stdout, SubSeq(definitions, 1, k))
    /\ pc' = "aborted"
    /\ UNCHANGED << project, fi, stack, package_name, definitions, symbol_table,
                    references, def_trace, pending, out_file >>

\* --output: open(args.output, "w") creates or truncates the file.
OpenOutput ==
    /\ pc = "output"
    /\ out_file' = [opened |-> TRUE, items |-> << >>, complete |-> FALSE]
    /\ pc' = "json_dump"
    /\ UNCHANGED << project, fi, stack, package_name, definitions, symbol_table,
                    references, def_trace, pending, stdout >>

\* --output: open(args.output, "w") raises.
OpenOutputFail ==
    /\ pc = "output"
    /\ pc' = "aborted"
    /\ UNCHANGED << project, fi, stack, package_name, definitions, symbol_table,
                    references, def_trace, pending, out_file, stdout >>

\* json.dump writes the document piece by piece: here the next Definition.
WriteItem ==
    /\ pc = "json_dump"
    /\ Len(out_file.items) < Len(definitions)
    /\ out_file' = [out_file EXCEPT
                       !.items = Append(@, definitions[Len(out_file.items) + 1])]
    /\ UNCHANGED << project, pc, fi, stack, package_name, definitions, symbol_table,
                    references, def_trace, pending, stdout >>

\* A write raises (the device is full, the file went away).
WriteFail ==
    /\ pc = "json_dump"
    /\ pc' = "aborted"
    /\ UNCHANGED << project, fi, stack, package_name, definitions, symbol_table,
                    references, def_trace, pending, out_file, stdout >>

\* The document is complete and the with block closes the file.
CloseOutput ==
    /\ pc = "json_dump"
    /\ Len(out_file.items) = Len(definitions)
    /\ out_file' = [out_file EXCEPT !.complete = TRUE]
    /\ pc' = "done"
    /\ UNCHANGED << project, fi, stack, package_name, definitions, symbol_table,
                    references, def_trace, pending, stdout >>

Next ==
    \/ SkipFile1 \/ OpenFile1 \/ ReadFail1 \/ Traverse \/ WriteSymbolTable \/ AppendDefinition
    \/ EndPass1
    \/ SkipFile2 \/ OpenFile2 \/ ReadFail2 \/ FindCalls \/ EndPass2
    \/ Merge
    \/ PrintResult \/ PrintNowhere \/ PrintFail
    \/ OpenOutput \/ OpenOutputFail \/ WriteItem \/ WriteFail
    \/ CloseOutput

Spec == Init /\ [][Next]_vars

\* ------------------------------------------------------------------------
\* The linker on its own: merge_definitions_references is a function of its
\* two arguments, so it is also run on lists no project produces (ids that
\* collide, references to ids no Definition has).
\* ------------------------------------------------------------------------

MergeDefIds == {"function_F_a.go_1", "function_G_a.go_2"}
MergeRefIds == MergeDefIds \cup {"function_H_b.go_3"}

\* Definitions as pass one leaves them: references is empty.
MergeDefinitionInputs ==
    UNION {[1..k -> {MakeDefinition(id, "function", None, "func F() {}", Some("p"),
                                    "p/a.go", 1, 1) : id \in MergeDefIds}]
           : k \in 0..MaxMergeDefs}

\* The i-th Reference is the call on line i.
MergeReferenceInputs ==
    UNION {{[i \in 1..k |-> MakeReference("F", ids[i], "p/b.go", i, "F()")]
            : ids \in [1..k -> MergeRefIds]}
           : k \in 0..MaxMergeRefs}

InitMerge ==
    /\ project = [root |-> << >>, sub |-> << >>]
    /\ pc = "merge"
    /\ fi = 0
    /\ stack = << >>
    /\ package_name = None
    /\ definitions \in MergeDefinitionInputs
    /\ symbol_table = << >>
    /\ references \in MergeReferenceInputs
    /\ def_trace = << >>
    /\ pending = << >>
    /\ out_file = Untouched
    /\ stdout = << >>

NextMerge == Merge

SpecMerge == InitMerge /\ [][NextMerge]_vars

\* ------------------------------------------------------------------------
\* What the properties speak of
\* ------------------------------------------------------------------------

\* collect_definitions is running.
PassOneRunning == pc \in {"collect_definitions", "traverse", "register", "append"}

\* collect_definitions has returned (and the run has not died since).
PassOneDone ==
    pc \in {"collect_references", "find_calls", "merge", "output", "json_dump", "done"}

\* collect_references has returned.
PassTwoDone == pc \in {"merge", "output", "json_dump", "done"}

\* merge_definitions_references has returned.
Linked == pc \in {"output", "json_dump", "done"}

TreeOf(i) == ReadAndParse(Files[i].source)
PathOf(i) == PathJoin(Files[i].root_dir, Files[i].file)
GoFiles == {i \in 1..Len(Files) : IsGoFile(Files[i].file)}

\* The nodes of the subtrees rooted at `nodes`, in pre-order.
RECURSIVE PreOrder(_, _)
PreOrder(tree, nodes) ==
    IF nodes = << >> THEN << >>
    ELSE << Head(nodes) >> \o PreOrder(tree, Children(tree, Head(nodes)))
                           \o PreOrder(tree, Tail(nodes))

\* The pre-order of the tree of each source.
PreOrderOf == [s \in GoSources |-> PreOrder(ReadAndParse(s), << RootNode >>)]

\* The position of node n in the pre-order of the tree of file f.
PreOrderIndex(f, n) ==
    LET order == PreOrderOf[Files[f].source]
    IN CHOOSE k \in 1..Len(order) : order[k] = n

SeqRange(s) == {s[i] : i \in 1..Len(s)}

\* The named children of the parent of n, in source order.
NamedSiblings(tree, n) ==
    SelectSeq(Children(tree, ParentOf(tree, n)), LAMBDA c : tree.nodes[c].named)

\* The name a function, method or type declaration node declares
\* (<< >> when it declares none).
DeclaredName(tree, n) ==
    LET type == tree.nodes[n].type
        named(m) == {c \in SeqRange(Children(tree, m)) : tree.nodes[c].field = "name"}
    IN IF type \in {"function_declaration", "method_declaration"}
       THEN {NodeText(tree, c) : c \in named(n)}
       ELSE IF type = "type_declaration"
       THEN {NodeText(tree, c) :
                c \in UNION {named(s) : s \in {s \in SeqRange(Children(tree, n)) :
                                                   tree.nodes[s].type = "type_spec"}}}
       ELSE {}

\* The function, method and type declarations of each source: the node and
\* the name it declares.
DeclarationsOf ==
    [s \in GoSources |->
        UNION {{<< n, name >> : name \in DeclaredName(ReadAndParse(s), n)}
               : n \in 1..Len(ReadAndParse(s).nodes)}]

\* The names a const or var declaration node introduces: the name fields of
\* its const_spec and var_spec children.
NamesIntroduced(tree, n) ==
    {c \in 1..Len(tree.nodes) :
        /\ tree.nodes[c].type = "identifier"
        /\ \/ ParentOf(tree, c) = n
           \/ /\ tree.nodes[c].field = "name"
              /\ ParentOf(tree, c) # 0
              /\ tree.nodes[ParentOf(tree, c)].type \in {"const_spec", "var_spec"}
              /\ ParentOf(tree, ParentOf(tree, c)) = n}

\* The text of the callee of a call_expression node (<< >> when it has none).
CalleeText(tree, n) ==
    {NodeText(tree, c) : c \in {c \in SeqRange(Children(tree, n)) :
                                   tree.nodes[c].field = "function"}}

\* The call expressions of each source, in pre-order.
CallNodesOf ==
    [s \in GoSources |->
        SelectSeq(PreOrderOf[s],
                  LAMBDA n : ReadAndParse(s).nodes[n].type = "call_expression")]

\* The call expressions of file f, in pre-order.
CallNodes(f) == CallNodesOf[Files[f].source]

IsPrefix(s, t) == Len(s) <= Len(t) /\ s = SubSeq(t, 1, Len(s))

\* The history names, for each Definition, the node it was made from.
TraceMatches ==
    /\ Len(def_trace) = Len(definitions)
    /\ \A i \in 1..Len(def_trace) :
          /\ def_trace[i].file \in GoFiles
          /\ definitions[i].file_name = PathOf(def_trace[i].file)
          /\ definitions[i].line_from =
                 TreeOf(def_trace[i].file).nodes[def_trace[i].node].start_row + 1

\* ------------------------------------------------------------------------
\* C1: the symbol table after pass one
\* ------------------------------------------------------------------------

\* The index of the last Definition recorded under `name`.
LastNamed(name) ==
    CHOOSE i \in 1..Len(def_trace) :
        /\ def_trace[i].name = name
        /\ \A j \in 1..Len(def_trace) : def_trace[j].name = name => j <= i

\* C1: once collect_definitions has processed every file, the keys of the
\* symbol table are exactly the names of the Definitions produced, and the id
\* stored under a name is the id of the last Definition appended with that
\* name.
C1_SymbolTableIsLastWriter ==
    PassOneDone =>
        /\ TraceMatches
        /\ DOMAIN symbol_table = {def_trace[i].name : i \in 1..Len(def_trace)}
        /\ \A name \in DOMAIN symbol_table :
              symbol_table[name] = definitions[LastNamed(name)].id

\* A name was defined twice with different ids: the table holds the later id.
C1_Witness ==
    /\ PassOneDone
    /\ \E i, j \in 1..Len(def_trace) :
          /\ i < j
          /\ def_trace[i].name = def_trace[j].name
          /\ definitions[i].id # definitions[j].id
          /\ symbol_table[def_trace[i].name] = definitions[j].id

\* ------------------------------------------------------------------------
\* C8: the order of the Definitions
\* ------------------------------------------------------------------------

\* Definition i was made no later than Definition j: an earlier file, or the
\* same file and a node no later in pre-order.
TraceOrdered(i, j) ==
    \/ def_trace[i].file < def_trace[j].file
    \/ /\ def_trace[i].file = def_trace[j].file
       /\ PreOrderIndex(def_trace[i].file, def_trace[i].node)
              <= PreOrderIndex(def_trace[j].file, def_trace[j].node)

\* C8: the Definitions are in file-visit order and, within a file, in
\* pre-order of the syntax tree (each is made no later than the next, which
\* orders them all); and the walk enters the children of every
\* node, so that once pass one is over every function, method and type
\* declaration of every Go file, at any depth, has its Definition.
C8_PreOrderEverywhere ==
    /\ TraceMatches
    /\ \A i \in 1..Len(def_trace) : i > 1 => TraceOrdered(i - 1, i)
    /\ PassOneDone =>
          \A f \in GoFiles : \A d \in DeclarationsOf[Files[f].source] :
              Cardinality({i \in 1..Len(def_trace) :
                              def_trace[i] = [file |-> f, node |-> d[1], name |-> d[2]]}) = 1

\* A type declared inside a function was recorded after the function and
\* before the function that follows it.
C8_Witness ==
    /\ PassOneDone
    /\ \E i \in 1..Len(def_trace) :
          /\ i + 2 <= Len(def_trace)
          /\ def_trace[i].name = "F" /\ definitions[i].type = "function"
          /\ def_trace[i + 1].name = "T" /\ definitions[i + 1].type = "struct"
          /\ def_trace[i + 2].name = "G"
          /\ ParentOf(TreeOf(def_trace[i].file), def_trace[i + 1].node)
                 \notin {0, RootNode}

\* ------------------------------------------------------------------------
\* C9: get_doc_comment
\* ------------------------------------------------------------------------

\* The doc comment of node n, said directly: the comments that end the run of
\* named siblings before n, first to last.
DocBlock(tree, n) ==
    LET sibs == NamedSiblings(tree, n)
        k == CHOOSE i \in 1..Len(sibs) : sibs[i] = n
        isComment(i) == tree.nodes[sibs[i]].type = "comment"
        \* the first index of the run of comments that ends right before k
        from == CHOOSE a \in 1..k :
                    /\ \A i \in a..(k - 1) : isComment(i)
                    /\ a > 1 => ~isComment(a - 1)
    IN IF from = k THEN None
       ELSE Some(StrJoin("\n", [i \in 1..(k - from) |->
                                   CommentText(tree, sibs[from + i - 1])]))

\* C9: the doc_string of every Definition is the newline-joined texts
\* (comment marker and surrounding blanks stripped) of the maximal run of
\* comment nodes right before its node among the named siblings, earliest
\* first, and None when the sibling right before it is missing or no comment.
C9_DocCommentIsPrecedingRun ==
    /\ TraceMatches
    /\ \A i \in 1..Len(definitions) :
          definitions[i].doc_string =
              DocBlock(TreeOf(def_trace[i].file), def_trace[i].node)

\* A two-comment block was joined in source order, the comment before the
\* preceding declaration left out; another Definition has no doc comment.
C9_Witness ==
    /\ \E i \in 1..Len(definitions) :
          /\ definitions[i].doc_string = Some("d1\nd2")
          /\ LET tree == TreeOf(def_trace[i].file)
             IN \E c \in SeqRange(NamedSiblings(tree, def_trace[i].node)) :
                   /\ tree.nodes[c].type = "comment"
                   /\ CommentText(tree, c) = "old"
                   /\ c < def_trace[i].node
    /\ \E i \in 1..Len(definitions) : definitions[i].doc_string = None

\* ------------------------------------------------------------------------
\* C3: what pass two collects
\* ------------------------------------------------------------------------

\* The Reference a call node must yield under the table: none when its
\* callee text is no key.
ReferenceFor(f, n, table) ==
    LET tree == TreeOf(f)
        keys == CalleeText(tree, n) \cap DOMAIN table
    IN IF keys = {} THEN << >>
       ELSE LET text == CHOOSE t \in keys : TRUE
            IN << [type |-> "function_call", name |-> text,
                   definition_id |-> table[text], file_name |-> PathOf(f),
                   language |-> "Go", line |-> tree.nodes[n].start_row + 1,
                   context |-> NodeText(tree, n)] >>

RECURSIVE ReferencesOfCalls(_, _, _)
ReferencesOfCalls(f, calls, table) ==
    IF calls = << >> THEN << >>
    ELSE ReferenceFor(f, Head(calls), table)
             \o ReferencesOfCalls(f, Tail(calls), table)

\* One Reference for each call whose callee text is a key, none for the
\* others, over the Go files from the f-th on.
RECURSIVE ReferencesFrom(_, _)
ReferencesFrom(f, table) ==
    IF f > Len(Files) THEN << >>
    ELSE (IF f \in GoFiles
          THEN ReferencesOfCalls(f, CallNodes(f), table)
          ELSE << >>) \o ReferencesFrom(f + 1, table)

\* C3: each call expression pass two visits yields exactly one Reference,
\* named by its callee text and bound to the symbol table's id for that text,
\* when the text is a key, and yields nothing otherwise: the references are
\* at every moment the first of these, and all of them once pass two is over.
C3_OneReferencePerResolvedCall ==
    LET expected == ReferencesFrom(1, symbol_table)
    IN /\ IsPrefix(references, expected)
       /\ PassTwoDone => references = expected

\* Pass two is over; one call resolved, and one call whose callee text
\* ("x.Helper") is no key was dropped.
C3_Witness ==
    /\ PassTwoDone
    /\ \E i \in 1..Len(references) :
          /\ references[i].name = "Helper"
          /\ references[i].definition_id = symbol_table["Helper"]
    /\ \E f \in GoFiles : \E n \in SeqRange(CallNodes(f)) :
          /\ CalleeText(TreeOf(f), n) = {"x.Helper"}
          /\ \A i \in 1..Len(references) :
                ~(references[i].file_name = PathOf(f)
                    /\ references[i].context = NodeText(TreeOf(f), n))

\* ------------------------------------------------------------------------
\* C6: pass one is over before pass two starts
\* ------------------------------------------------------------------------

\* The names the function, method and type declarations of file f declare.
NamesDeclaredBy == [s \in GoSources |-> {d[2] : d \in DeclarationsOf[s]}]

NamesDeclaredIn(f) == NamesDeclaredBy[Files[f].source]

\* C6: no Reference exists while pass one runs, and once pass two is over a
\* call to a name that a function, method or type declaration of any file
\* declares, a file visited later included, has its Reference, bound to a
\* Definition of that name.
C6_PassOneBeforePassTwo ==
    /\ PassOneRunning => references = << >>
    /\ PassTwoDone =>
          \A f \in GoFiles : \A n \in SeqRange(CallNodes(f)) :
              \A text \in CalleeText(TreeOf(f), n) :
                  (\E g \in GoFiles : text \in NamesDeclaredIn(g)) =>
                      \E i \in 1..Len(references) : \E k \in 1..Len(def_trace) :
                          /\ references[i].name = text
                          /\ references[i].file_name = PathOf(f)
                          /\ references[i].line = TreeOf(f).nodes[n].start_row + 1
                          /\ def_trace[k].name = text
                          /\ references[i].definition_id = definitions[k].id

\* A call in the first file to a name only a later file declares resolved.
C6_Witness ==
    /\ PassTwoDone
    /\ \E i \in 1..Len(references) : \E k \in 1..Len(def_trace) :
          /\ references[i].name = "Main"
          /\ references[i].file_name = PathOf(1)
          /\ def_trace[k].name = "Main"
          /\ def_trace[k].file > 1
          /\ references[i].definition_id = definitions[k].id
          /\ "Main" \notin NamesDeclaredIn(1)

\* ------------------------------------------------------------------------
\* C10: ids in the table and in the references are ids of Definitions
\* ------------------------------------------------------------------------

DefinitionIds == {definitions[i].id : i \in 1..Len(definitions)}

\* Every Reference's definition_id is the id of a Definition, and after
\* linking every Reference is among the references of some Definition.
NoReferenceDropped ==
    /\ \A i \in 1..Len(references) : references[i].definition_id \in DefinitionIds
    /\ Linked =>
          \A i \in 1..Len(references) : \E k \in 1..Len(definitions) :
              references[i] \in SeqRange(definitions[k].references)

\* C10 as claimed: at every point of the run, pass one included, every id in
\* the symbol table is the id of a Definition already in the list; so is
\* every Reference's definition_id; and after linking every Reference is
\* among the references of some Definition.
C10_TableIdsAlreadyPresent ==
    /\ \A name \in DOMAIN symbol_table : symbol_table[name] \in DefinitionIds
    /\ NoReferenceDropped

\* The entry of `name` was written and its Definition is the next to be
\* appended: pass one stands between symbol_table[name] = unique_id and
\* definitions.append.
AboutToAppend(name) ==
    /\ pc = "append"
    /\ name = pending[1].name
    /\ symbol_table[name] = pending[1].def.id

\* C10 as amended: at every point of the run, pass one included, every id in
\* the symbol table is the id of a Definition already in the list, or is the
\* entry just written, whose Definition is the next to be appended; every
\* Reference's definition_id is the id of a Definition; and after linking
\* every Reference is among the references of some Definition.
C10_NoDanglingIds ==
    /\ \A name \in DOMAIN symbol_table :
          symbol_table[name] \in DefinitionIds \/ AboutToAppend(name)
    /\ NoReferenceDropped

\* Linking is done and a Reference sits in a Definition.
C10_Witness ==
    /\ Linked
    /\ references # << >>
    /\ \E k \in 1..Len(definitions) :
          references[1] \in SeqRange(definitions[k].references)

\* ------------------------------------------------------------------------
\* C2: two functions named Helper in two files
\* ------------------------------------------------------------------------

Helpers == {i \in 1..Len(def_trace) : def_trace[i].name = "Helper"}
FirstHelper == CHOOSE i \in Helpers : \A j \in Helpers : i <= j
SecondHelper == CHOOSE i \in Helpers : \A j \in Helpers : j <= i

\* The project declares Helper exactly twice, as functions, in two files.
TwoHelpers ==
    /\ Cardinality(Helpers) = 2
    /\ \A i \in Helpers : definitions[i].type = "function"
    /\ def_trace[FirstHelper].file # def_trace[SecondHelper].file

\* Every Reference named Helper is attached to the second Helper Definition
\* and to no other, and the first Helper Definition has no references.
OnlySecondHelperIsReferenced ==
    /\ definitions[FirstHelper].references = << >>
    /\ \A r \in 1..Len(references) :
          references[r].name = "Helper" =>
              \A k \in 1..Len(definitions) :
                  references[r] \in SeqRange(definitions[k].references)
                      <=> k = SecondHelper

\* C2 as claimed: wherever the two files lie and whatever line the
\* functions start on, after the whole pipeline every call to Helper is
\* attached only to the second Helper Definition processed and the first one
\* has no references.
C2_AnyPlacementAnyLine ==
    (Linked /\ TwoHelpers) => OnlySecondHelperIsReferenced

\* Neither Helper Definition shares its id with another Definition.  (Two
\* Helpers that start on the same line of files with the same base name
\* share theirs: the id holds the base name, not the path.)
HelperIdsUnshared ==
    \A h \in Helpers : \A k \in 1..Len(definitions) :
        definitions[k].id = definitions[h].id => k = h

\* C2 as amended: the same, when neither Helper Definition shares its id
\* with another Definition.
C2_UnsharedIds ==
    (Linked /\ TwoHelpers /\ HelperIdsUnshared) => OnlySecondHelperIsReferenced

\* Two Helpers in files of the same base name but on different lines, and a
\* call to Helper in the first file, attached to the second Helper.
C2_Witness ==
    /\ Linked /\ TwoHelpers /\ HelperIdsUnshared
    /\ Files[def_trace[FirstHelper].file].file = Files[def_trace[SecondHelper].file].file
    /\ definitions[SecondHelper].references # << >>
    /\ \E r \in 1..Len(references) :
          /\ references[r].name = "Helper"
          /\ references[r].file_name = definitions[FirstHelper].file_name

\* ------------------------------------------------------------------------
\* C5: const and var declarations
\* ------------------------------------------------------------------------

\* The Definitions made from node n of file f.
MadeFrom(f, n) ==
    {i \in 1..Len(def_trace) : def_trace[i].file = f /\ def_trace[i].node = n}

\* C5 as claimed: a const or var declaration that introduces N names yields
\* exactly N Definitions, one per name, alike in snippet, doc_string and
\* line span.
C5_OneDefinitionPerName ==
    PassOneDone =>
        \A f \in GoFiles : \A n \in 1..Len(TreeOf(f).nodes) :
            TreeOf(f).nodes[n].type \in {"const_declaration", "var_declaration"} =>
                /\ Cardinality(MadeFrom(f, n)) = Cardinality(NamesIntroduced(TreeOf(f), n))
                /\ {def_trace[i].name : i \in MadeFrom(f, n)}
                       = {NodeText(TreeOf(f), c) : c \in NamesIntroduced(TreeOf(f), n)}
                /\ \A i, j \in MadeFrom(f, n) :
                      /\ definitions[i].snippet = definitions[j].snippet
                      /\ definitions[i].doc_string = definitions[j].doc_string
                      /\ definitions[i].line_from = definitions[j].line_from
                      /\ definitions[i].line_to = definitions[j].line_to

\* ------------------------------------------------------------------------
\* C7: no partial output
\* ------------------------------------------------------------------------

\* C7 as claimed: a run that aborted, whatever failed, left no part of the
\* result at the destination.
C7_AbortLeavesNoOutput ==
    pc = "aborted" => (out_file.items = << >> /\ stdout = << >>)

\* ------------------------------------------------------------------------
\* C4: the linker
\* ------------------------------------------------------------------------

\* The references whose definition_id is id, in the order of the list.
ReferencesTo(id, refs) == SelectSeq(refs, LAMBDA r : r.definition_id = id)

\* C4: merge_definitions_references returns (it never raises, not even on a
\* Reference whose definition_id no Definition has) the same Definitions,
\* each with references set to exactly the input references bound to its id,
\* in input order: the empty list when there is none.
C4_MergeAttachesMatchingReferences ==
    /\ [](pc = "merge" => ENABLED Merge)
    /\ [][pc = "merge" =>
             /\ pc' = "output"
             /\ references' = references
             /\ Len(definitions') = Len(definitions)
             /\ \A i \in 1..Len(definitions) :
                   definitions'[i] =
                       [definitions[i] EXCEPT
                           !.references = ReferencesTo(definitions[i].id, references)]]_vars

\* The linker has run on a list where one Definition has two references, one
\* has none, and one Reference is bound to an id no Definition has.
C4_Witness ==
    /\ pc = "output"
    /\ def_trace = << >>
    /\ \E i \in 1..Len(references) : references[i].definition_id \notin DefinitionIds
    /\ \E k \in 1..Len(definitions) :
          /\ Len(definitions[k].references) = 2
          /\ definitions[k].references[1].line < definitions[k].references[2].line
    /\ \E k \in 1..Len(definitions) : definitions[k].references = << >>

====
